---- MODULE Spec2Model ----
(***************************************************************************)
(* Model of the Jira reminder bot (src/jiratasks.py; src/app.py and the    *)
(* modules under src/clients, src/utils and src/state_manager.py hold the  *)
(* same logic in asynchronous form).                                       *)
(*                                                                         *)
(* One JiraMonitor object lives in one process.  Its check() method runs   *)
(* one reconciliation cycle: fetch the matching issues, notify about the   *)
(* ones not yet in notified_tasks, prune notified_tasks, save it.  The     *)
(* scheduler runs check() immediately and then once per interval.          *)
(*                                                                         *)
(* Issue keys are modelled as the integers 1..NumKeys (key i stands for    *)
(* the string "A-i"); an issue is identified with its key, since the       *)
(* summary only reaches the text of the message.                           *)
(***************************************************************************)
EXTENDS Integers, Sequences, FiniteSets, TLC

\* ---------------------------------------------------------------- bounds
NumKeys == 2

\* ------------------------------------------------------ program constants
WorkStart == 8
WorkEnd == 20

Keys == 1..NumKeys

\* Local hours at which a cycle may run: the last hour before the work-hours
\* window, its first hour, and the first hour after it.
Hours == {WorkStart - 1, WorkStart, WorkEnd}

Range(s) == {s[i] : i \in DOMAIN s}

\* A result of the saved search: ordered, each key at most once.
IsResult(S) ==
    \A i, j \in DOMAIN S : i # j => S[i] # S[j]

\* (Taking the domain of a function over the set enumerates the set once.)
Results ==
    DOMAIN [S \in UNION {{T \in [1..n -> Keys] : IsResult(T)} : n \in 0..NumKeys} |-> TRUE]

\* What the Jira call can do: return a result, or raise.
FetchOutcomes ==
    DOMAIN [f \in [exc : {"none"}, issues : Results]
                     \cup [exc : {"RequestException", "Exception"}, issues : {<<>>}] |-> TRUE]

\* What a write of the state file can do.
IOOutcomes == {"ok", "open_fail", "write_fail"}

\* The state file: absent, unparsable, or a JSON array of keys.  The array's
\* order is not kept: load_state turns it into a set at once.
Files ==
    [status : {"absent", "corrupt"}, keys : {{}}] \cup [status : {"ok"}, keys : SUBSET Keys]

VARIABLES
    notified_tasks,   \* JiraMonitor.notified_tasks
    state_file,       \* contents of STATE_FILE
    pc,               \* scheduler: "check" (a cycle is due), "sleep", "dead"
    gate,             \* is_work_hours() at the time of the latest cycle
    issues,           \* result of the latest fetch (<<>> when it raised)
    new_issues,       \* new_issues of the latest cycle
    send_called,      \* notifier.send was called in the latest cycle
    delivered,        \* the Telegram POST was made and succeeded in the latest cycle
    added,            \* keys the latest cycle added to notified_tasks
    removed,          \* keys the latest cycle removed from notified_tasks
    saves,            \* the values handed to save_state in the latest cycle, in order
    outcome,          \* "none", "ok", "fetch_error", "send_error"
    exc,              \* exception the latest cycle raised inside its try block
    resent,           \* keys of the latest batch that the batch of the cycle before held too
    repeated          \* the latest cycle repeated the one before it (same S, same gate, both ok)

vars ==
    <<notified_tasks, state_file, pc, gate, issues, new_issues, send_called,
      delivered, added, removed, saves, outcome, exc, resent, repeated>>

\* ------------------------------------------------------------ state store
load_state(f) ==
    IF f.status = "ok" THEN f.keys ELSE {}

save_state(f, state, io) ==
    CASE io = "ok" -> [status |-> "ok", keys |-> state]
      [] io = "open_fail" -> f
      [] io = "write_fail" -> [status |-> "corrupt", keys |-> {}]

\* ---------------------------------------------------------------- helpers
is_work_hours(h) ==
    WorkStart <= h /\ h < WorkEnd

\* TelegramNotifier.send: what it did with a batch at hour h when the POST
\* would succeed (http) or fail.
send(batch, h, http) ==
    IF batch = <<>> THEN [posted |-> FALSE, raised |-> FALSE]
    ELSE IF ~is_work_hours(h) THEN [posted |-> FALSE, raised |-> FALSE]
    ELSE IF http THEN [posted |-> TRUE, raised |-> FALSE]
    ELSE [posted |-> FALSE, raised |-> TRUE]

\* ---------------------------------------------------------------- monitor
current_keys(S) ==
    Range(S)

\* Variant: the filter on notified_tasks is lost.
NewIssues_Unfiltered(S, nt) ==
    S

NewIssues(S, nt) ==
    SelectSeq(S, LAMBDA k : k \notin nt)

\* Variant: send is called whatever the batch.
ShouldSend_Always(new) ==
    TRUE

ShouldSend(new) ==
    new # <<>>

\* Variant: the keys are added before send is called.
NotifiedAfterSend_AddFirst(nt, new, raised) ==
    nt \cup Range(new)

\* Variant: the add loop is lost.
NotifiedAfterSend_NoAdd(nt, new, raised) ==
    nt

\* notified_tasks after the send call and the loop that adds the batch's
\* keys: a raise in send skips the loop.
NotifiedAfterSend(nt, new, raised) ==
    IF raised THEN nt ELSE nt \cup Range(new)

Prune(nt, S) ==
    nt \cap current_keys(S)

\* Variant: an empty result leaves notified_tasks as it is.
OnEmptyResult_Keep(nt) ==
    nt

\* An empty result clears notified_tasks.
OnEmptyResult(nt) ==
    {}

\* Variant: only the HTTP errors are caught.
Caught_HttpOnly(e) ==
    e = "RequestException"

\* The except clauses of check: which exceptions they catch.
Caught(e) ==
    e \in {"RequestException", "Exception"}

\* One whole call of JiraMonitor.check: f is what the Jira call does, h the
\* local hour, http whether the Telegram POST succeeds.  The values handed to
\* save_state are listed in call order; check never reads the file, so the
\* file's fate is settled from that list (SaveAll).
check(nt, f, h, http) ==
    IF f.exc # "none" THEN
        [nt |-> nt, issues |-> <<>>, new |-> <<>>, called |-> FALSE,
         posted |-> FALSE, added |-> {}, saves |-> <<>>, outcome |-> "fetch_error",
         exc |-> f.exc]
    ELSE IF f.issues = <<>> THEN
        LET cleared == OnEmptyResult(nt) IN
        [nt |-> cleared, issues |-> <<>>, new |-> <<>>, called |-> FALSE,
         posted |-> FALSE, added |-> {}, saves |-> <<cleared>>, outcome |-> "ok",
         exc |-> "none"]
    ELSE
        LET S == f.issues
            new == NewIssues(S, nt)
        IN  IF ShouldSend(new) THEN
                LET s == send(new, h, http)
                    after == NotifiedAfterSend(nt, new, s.raised)
                    pruned == Prune(after, S)
                IN  IF s.raised THEN
                        [nt |-> after, issues |-> S, new |-> new, called |-> TRUE,
                         posted |-> s.posted, added |-> after \ nt, saves |-> <<>>,
                         outcome |-> "send_error", exc |-> "RequestException"]
                    ELSE
                        [nt |-> pruned, issues |-> S, new |-> new, called |-> TRUE,
                         posted |-> s.posted, added |-> after \ nt,
                         saves |-> <<after, pruned>>, outcome |-> "ok", exc |-> "none"]
            ELSE
                LET pruned == Prune(nt, S) IN
                [nt |-> pruned, issues |-> S, new |-> new, called |-> FALSE,
                 posted |-> FALSE, added |-> {}, saves |-> <<pruned>>, outcome |-> "ok",
                 exc |-> "none"]

\* The state file after the calls of save_state of one cycle, the i-th of
\* which hands over saved[i] and meets the outcome ios[i].
RECURSIVE SaveAll(_, _, _, _)
SaveAll(file, saved, ios, i) ==
    IF i > Len(saved) THEN file
    ELSE SaveAll(save_state(file, saved[i], ios[i]), saved, ios, i + 1)

\* The Telegram POST has an outcome only when it is made.
HttpOutcomes(nt, f, h) ==
    IF f.exc = "none" /\ ShouldSend(NewIssues(f.issues, nt)) /\ is_work_hours(h)
    THEN BOOLEAN ELSE {TRUE}

\* History: the keys that this cycle hands to send and that the cycle right
\* before it handed to send as well.
NextResent(r) ==
    IF r.called /\ send_called THEN Range(r.new) \cap Range(new_issues) ELSE {}

\* ---------------------------------------------------------------- actions
Init ==
    /\ state_file \in Files
    /\ notified_tasks = load_state(state_file)
    /\ pc = "check"
    /\ gate = FALSE
    /\ issues = <<>>
    /\ new_issues = <<>>
    /\ send_called = FALSE
    /\ delivered = FALSE
    /\ added = {}
    /\ removed = {}
    /\ saves = <<>>
    /\ outcome = "none"
    /\ exc = "none"
    /\ resent = {}
    /\ repeated = FALSE

Check ==
    /\ pc = "check"
    /\ \E f \in FetchOutcomes, h \in Hours :
       /\ issues' = f.issues
       /\ gate' = is_work_hours(h)
       /\ \E http \in HttpOutcomes(notified_tasks, f, h) :
          \E r \in {check(notified_tasks, f, h, http)} :
             /\ notified_tasks' = r.nt
             /\ new_issues' = r.new
             /\ send_called' = r.called
             /\ delivered' = r.posted
             /\ added' = r.added
             /\ removed' = notified_tasks \ r.nt
             /\ saves' = r.saves
             /\ outcome' = r.outcome
             /\ exc' = r.exc
             /\ resent' = NextResent(r)
             /\ repeated' = (/\ outcome = "ok"
                             /\ r.outcome = "ok"
                             /\ r.issues = issues
                             /\ is_work_hours(h) = gate)
             /\ pc' = IF r.exc = "none" \/ Caught(r.exc) THEN "sleep" ELSE "dead"
             /\ \E ios \in [1..Len(r.saves) -> IOOutcomes] :
                   state_file' = SaveAll(state_file, r.saves, ios, 1)

\* The interval has passed: the scheduler runs the next cycle.
Timer ==
    /\ pc = "sleep"
    /\ pc' = "check"
    /\ UNCHANGED <<notified_tasks, state_file, gate, issues, new_issues, send_called,
                   delivered, added, removed, saves, outcome, exc, resent, repeated>>

\* The process is stopped between two cycles and started again: a new
\* JiraMonitor loads the state file and its first cycle runs immediately.
Restart ==
    /\ pc = "sleep"
    /\ notified_tasks' = load_state(state_file)
    /\ pc' = "check"
    /\ gate' = FALSE
    /\ issues' = <<>>
    /\ new_issues' = <<>>
    /\ send_called' = FALSE
    /\ delivered' = FALSE
    /\ added' = {}
    /\ removed' = {}
    /\ saves' = <<>>
    /\ outcome' = "none"
    /\ exc' = "none"
    /\ resent' = {}
    /\ repeated' = FALSE
    /\ UNCHANGED state_file

Next ==
    \/ Check
    \/ Timer
    \/ Restart

Spec == Init /\ [][Next]_vars

\* The timer fires and every call of a cycle returns or times out.
FairSpec == Spec /\ WF_vars(Check) /\ WF_vars(Timer)

TypeOK ==
    /\ notified_tasks \in SUBSET Keys
    /\ state_file \in Files
    /\ pc \in {"check", "sleep", "dead"}
    /\ gate \in BOOLEAN
    /\ issues \in Results
    /\ new_issues \in Results
    /\ outcome \in {"none", "ok", "fetch_error", "send_error"}

\* ================================================================ claims
\* A step that runs one whole cycle.
CycleStep == pc = "check" /\ pc' # "check"

\* Position of key k in the sequence S.
PositionIn(S, k) == CHOOSE i \in DOMAIN S : S[i] = k

\* ---- C1
\* C1 as stated: a key that newly appears and keeps matching is handed to
\* send in exactly one cycle's batch and is in notified_tasks at the end of
\* that cycle.  So no key of a batch was in the batch of the cycle before, and
\* every key of a batch is in notified_tasks when the cycle ends.
C1_ExactlyOneBatch ==
    /\ resent = {}
    /\ send_called => Range(new_issues) \subseteq notified_tasks

\* C1 as amended: in every cycle whose fetch returns, a matching key that is
\* not in notified_tasks is in the batch handed to send, and it is in
\* notified_tasks at the end of the cycle exactly if send returned without
\* raising; a matching key that is in notified_tasks is not in the batch and
\* stays in notified_tasks.  Hence the key is sent in every cycle up to the
\* first one whose send returns, and in none after it while it keeps matching.
C1_SentUntilSendReturns ==
    [][(CycleStep /\ outcome' \in {"ok", "send_error"}) =>
        \A k \in Range(issues') :
            /\ k \notin notified_tasks =>
                /\ send_called'
                /\ k \in Range(new_issues')
                /\ (outcome' = "ok") <=> (k \in notified_tasks')
            /\ k \in notified_tasks =>
                /\ k \notin Range(new_issues')
                /\ k \in notified_tasks']_vars

\* A key handed to send a second time, after a send that raised, and now in
\* notified_tasks.
C1_Witness ==
    /\ resent # {}
    /\ outcome = "ok"
    /\ resent \subseteq notified_tasks

\* ---- C2
\* C2: in every cycle whose fetch returns a non-empty S, the batch holds
\* exactly the keys of S that were not in notified_tasks at cycle start, each
\* once and in S's order; send is called exactly if the batch is non-empty.
C2_BatchIsNewIssues ==
    [][(CycleStep /\ outcome' \in {"ok", "send_error"} /\ issues' # <<>>) =>
        /\ Range(new_issues') = Range(issues') \ notified_tasks
        /\ \A i, j \in DOMAIN new_issues' :
              i < j => PositionIn(issues', new_issues'[i]) < PositionIn(issues', new_issues'[j])
        /\ send_called' <=> (new_issues' # <<>>)]_vars

\* A cycle whose S held both a key already notified and new ones.
C2_Witness ==
    /\ outcome = "ok"
    /\ send_called
    /\ new_issues # <<>>
    /\ Len(new_issues) < Len(issues)

\* ---- C3
\* C3: after a cycle in which the fetch returned S, notified_tasks is a subset
\* of keys(S).
C3_NoStaleKeys ==
    outcome \in {"ok", "send_error"} => notified_tasks \subseteq Range(issues)

\* ---- C4
\* C4: a cycle whose fetch returns the empty result ends with notified_tasks
\* empty, hands exactly the empty set to save_state and does not call send; a
\* key that is not in notified_tasks stays out of it as long as it does not
\* match, and is in the batch of the first cycle in which it matches again.
C4_EmptyResultResets ==
    [][CycleStep =>
        /\ (outcome' = "ok" /\ issues' = <<>>) =>
              /\ notified_tasks' = {}
              /\ saves' = <<{}>>
              /\ ~send_called'
        /\ \A k \in Keys \ notified_tasks :
              /\ k \notin Range(issues') => k \notin notified_tasks'
              /\ (outcome' # "fetch_error" /\ k \in Range(issues')) =>
                    (send_called' /\ k \in Range(new_issues'))]_vars

\* An empty result that cleared a non-empty notified_tasks.
C4_Witness ==
    /\ outcome = "ok"
    /\ issues = <<>>
    /\ removed # {}
    /\ notified_tasks = {}

\* ---- C5
\* C5: a cycle in which the fetch or send raises ends with notified_tasks and
\* the state file as they were at its start, and hands nothing to save_state.
C5_ErrorLeavesStateUntouched ==
    [][(CycleStep /\ outcome' \in {"fetch_error", "send_error"}) =>
        /\ notified_tasks' = notified_tasks
        /\ state_file' = state_file
        /\ saves' = <<>>]_vars

\* A send that raised while notified_tasks held a key that no longer matches.
C5_Witness ==
    /\ outcome = "send_error"
    /\ ~(notified_tasks \subseteq Range(issues))
    /\ state_file.status = "ok"

\* ---- C6
\* C6: in a cycle where send raised, notified_tasks is still intersected with
\* keys(S) and the result is handed to save_state before the cycle ends.
C6_PruneDespiteSendFailure ==
    outcome = "send_error" =>
        /\ notified_tasks \subseteq Range(issues)
        /\ saves # <<>>
        /\ saves[Len(saves)] = notified_tasks

\* ---- C7
\* C7: keys are added to notified_tasks only by a cycle whose Telegram POST
\* was made and succeeded.
C7_AddedOnlyOnDelivery ==
    added # {} => delivered

\* ---- C8
\* C8: a cycle that follows a completed cycle with the same S and the same
\* work-hours gate value, and that completes too, does not call send and
\* leaves notified_tasks as the first cycle left it.
C8_SecondCycleIsNoOp ==
    [][(/\ CycleStep
        /\ outcome = "ok"
        /\ outcome' = "ok"
        /\ issues' = issues
        /\ gate' = gate) =>
        /\ ~send_called'
        /\ new_issues' = <<>>
        /\ notified_tasks' = notified_tasks]_vars

\* A second cycle on the same non-empty S.
C8_Witness ==
    /\ repeated
    /\ issues # <<>>
    /\ notified_tasks = Range(issues)

\* ---- C9
\* C9: no cycle ends the process, whatever failed in it; again and again a
\* cycle returns to the scheduler, and again and again the next one starts.
C9_LoopContinues ==
    /\ [](pc \in {"check", "sleep"})
    /\ []<>(pc = "sleep")
    /\ []<>(pc = "check")

\* The next cycle is due after a cycle that raised an unexpected exception.
C9_Witness ==
    /\ pc = "check"
    /\ outcome = "fetch_error"
    /\ exc = "Exception"

\* ---- C10
\* C10: every value handed to save_state in a cycle is the final
\* notified_tasks of that cycle, so none holds a key outside keys(S).
C10_SavesOnlyFinalSet ==
    \A i \in DOMAIN saves :
        /\ saves[i] = notified_tasks
        /\ saves[i] \subseteq Range(issues)

====
